---------------------------- MODULE Spec2Model ----------------------------
(***************************************************************************)
(* Model of the Android DNS-SD bridge, src/platform/android/DnssdImpl.cpp. *)
(*                                                                         *)
(* Two threads are modelled.  The caller thread owns the stack lock while  *)
(* it is inside a public operation (ChipDnssdBrowse, ChipDnssdResolve,     *)
(* ...).  The backend thread belongs to the Java discovery backend and     *)
(* enters this layer through HandleResolve and HandleBrowse.  A backend    *)
(* method called by a public operation is a state of its own ("inBackend") *)
(* so that result deliveries can interleave with it.                       *)
(*                                                                         *)
(* C strings are sequences of one-character strings.                       *)
(***************************************************************************)
EXTENDS Integers, Sequences, FiniteSets, TLC

(***************************************************************************)
(* Bounds of the model.                                                    *)
(***************************************************************************)
\* browse sessions ever allocated in one behaviour
MaxSessions == 1
\* keys in the TXT map of one resolve result
MaxTxt == 2
\* length of the service types enumerated exhaustively for the codec
MaxTypeLen == 3
\* instance names in one browse batch
MaxBatch == 2
\* chip::Platform::Delete calls on one BrowseContext (a second one is a
\* delete of a deleted object)
MaxDeletes == 2

(***************************************************************************)
(* Program constants.  The three size limits come from headers that the    *)
(* file includes (lib/dnssd/platform/Dnssd.h, lib/dnssd/Constants.h); the  *)
(* lines named for them are the lines of DnssdImpl.cpp that apply them.    *)
(***************************************************************************)
\* Operational::kInstanceNameMaxLength
kInstanceNameMaxLength == 33
\* kDnssdTypeMaxSize: DnssdService::mType is char[kDnssdTypeMaxSize + 1]
kDnssdTypeMaxSize == 8
\* kDnssdTypeAndProtocolMaxSize
kDnssdTypeAndProtocolMaxSize == 13
\* largest value of uint16_t (CanCastTo<uint16_t>)
UINT16_MAX == 65535

\* A size_t is kept as its two 32-bit words, [hi, lo]: CanCastTo<uint32_t>
\* holds exactly when the high word is 0.
SizeT(hi, lo) == [hi |-> hi, lo |-> lo]
CanCastToUint32(v) == v.hi = 0
\* the sizes the model passes: 0, 1 and 2^32
Sizes == {SizeT(0, 0), SizeT(0, 1), SizeT(1, 0)}

(***************************************************************************)
(* State.                                                                  *)
(***************************************************************************)
VARIABLES
    bound,      \* the file-scope references and method ids (sResolverObject ...)
    lock,       \* holder of the stack lock: "free", "caller" or "backend"
    sessions,   \* the BrowseContext objects ever allocated; the identifier of
                \* a session is its index; deletes counts chip::Platform::Delete
    bkBrowse,   \* backend: callback handles with a running browse
    bkStopped,  \* backend: callback handles whose browse was stopped and for
                \* which one more batch may still be delivered
    bkResolve,  \* backend: callback handles with a resolve not yet answered
    pc,         \* caller thread: "outside", "idle", "unlocked", "inBackend",
                \* "afterBackend", "returned", "aborted"
    call,       \* caller thread: the public operation in progress
    ret,        \* caller thread: what the operation that just returned did
    bpc,        \* backend thread: "idle", "dispatch", "callback", "exit",
                \* "done", "aborted"
    dlv,        \* backend thread: the result delivery in progress
    codec       \* the service-type codec on its own: the call under way

vars == <<bound, lock, sessions, bkBrowse, bkStopped, bkResolve, pc, call, ret, bpc, dlv,
          codec>>

\* identifiers of the sessions that are allocated and not deleted
LiveSessions == {i \in 1..Len(sessions) : sessions[i].deletes = 0}

\* identifiers that Browse issued and StopBrowse has reclaimed: pointers to
\* deleted BrowseContext objects
StaleSessions == {i \in 1..Len(sessions) : sessions[i].deletes > 0}

\* The process has not been aborted.  A thread that runs into a fatal signal
\* (null jmethodID passed to JNI, delete of a deleted object) ends the
\* process: no thread takes another step.
Running == pc # "aborted" /\ bpc # "aborted"

kProtocolTcp == <<".", "_", "t", "c", "p">>
kProtocolUdp == <<".", "_", "u", "d", "p">>

\* CHIP_ERROR values used by the file
CHIP_NO_ERROR == "CHIP_NO_ERROR"
CHIP_ERROR_INVALID_ARGUMENT == "CHIP_ERROR_INVALID_ARGUMENT"
CHIP_ERROR_INCORRECT_STATE == "CHIP_ERROR_INCORRECT_STATE"
CHIP_ERROR_NO_MEMORY == "CHIP_ERROR_NO_MEMORY"
CHIP_ERROR_NOT_IMPLEMENTED == "CHIP_ERROR_NOT_IMPLEMENTED"
CHIP_ERROR_UNKNOWN_RESOURCE_ID == "CHIP_ERROR_UNKNOWN_RESOURCE_ID"
CHIP_JNI_ERROR_EXCEPTION_THROWN == "CHIP_JNI_ERROR_EXCEPTION_THROWN"
CHIP_JNI_ERROR_NO_ENV == "CHIP_JNI_ERROR_NO_ENV"

\* DnssdServiceProtocol
kDnssdProtocolUdp == "udp"
kDnssdProtocolTcp == "tcp"
kDnssdProtocolUnknown == "unknown"

(***************************************************************************)
(* String helpers (strlen, strrchr, strstr, std::string::find).            *)
(***************************************************************************)
\* the string of n copies of the character c
Rep(c, n) == [i \in 1..n |-> c]

\* does sub occur in s starting at index i (1-based)
MatchAt(s, sub, i) ==
    /\ i >= 1
    /\ i + Len(sub) - 1 <= Len(s)
    /\ \A k \in 1..Len(sub) : s[i + k - 1] = sub[k]

\* std::string::find / strstr: index of the first occurrence, 0 when there is none
Find(s, sub) ==
    LET hits == {i \in 1..(Len(s) + 1) : MatchAt(s, sub, i)}
    IN  IF hits = {} THEN 0 ELSE CHOOSE i \in hits : \A j \in hits : i <= j

\* StrRChr searching from the front, as strchr does
StrRChr_FirstOccurrence(s, c) ==
    LET hits == {i \in 1..Len(s) : s[i] = c}
    IN  IF hits = {} THEN 0 ELSE CHOOSE i \in hits : \A j \in hits : i <= j

\* strrchr: index of the last occurrence of the character c, 0 when there is none
StrRChr(s, c) ==
    LET hits == {i \in 1..Len(s) : s[i] = c}
    IN  IF hits = {} THEN 0 ELSE CHOOSE i \in hits : \A j \in hits : i >= j

\* the tail of s from index i on
Tail_From(s, i) == SubSeq(s, i, Len(s))

(***************************************************************************)
(* Service-type codec.                                                     *)
(***************************************************************************)
GetFullType(type, protocol) ==
    type \o (IF protocol = kDnssdProtocolUdp THEN kProtocolUdp ELSE kProtocolTcp)

GetFullTypeWithSubTypes(type, protocol) ==
    LET fullType == GetFullType(type, protocol)
        subtypeDelimiter == <<".", "_", "s", "u", "b", ".">>
        position == Find(fullType, subtypeDelimiter)
    IN  IF position # 0
        THEN Tail_From(fullType, position + Len(subtypeDelimiter))
                 \o <<",">> \o SubSeq(fullType, 1, position - 1)
        ELSE fullType

\* extractProtocol<N>: err, and on success the base name and the protocol.
\* strstr is applied to the string that starts at the last '.'.
extractProtocol(serviceType, N) ==
    LET dotPos == StrRChr(serviceType, ".")
        lengthWithoutProtocol == dotPos - 1
        suffix == Tail_From(serviceType, dotPos)
        fail == [err |-> CHIP_ERROR_INVALID_ARGUMENT, name |-> <<>>,
                 protocol |-> kDnssdProtocolUnknown]
    IN  IF dotPos = 0 THEN fail
        ELSE IF ~(lengthWithoutProtocol + 1 <= N) THEN fail
        ELSE IF Find(suffix, kProtocolTcp) # 0
             THEN [err |-> CHIP_NO_ERROR,
                   name |-> SubSeq(serviceType, 1, lengthWithoutProtocol),
                   protocol |-> kDnssdProtocolTcp]
        ELSE IF Find(suffix, kProtocolUdp) # 0
             THEN [err |-> CHIP_NO_ERROR,
                   name |-> SubSeq(serviceType, 1, lengthWithoutProtocol),
                   protocol |-> kDnssdProtocolUdp]
        ELSE fail

(***************************************************************************)
(* Result marshaller, resolve path (HandleResolve).                        *)
(*                                                                         *)
(* A resolve result is a record                                            *)
(*   instanceName, serviceType : strings                                   *)
(*   addressPresent            : address != nullptr                        *)
(*   addressParses             : Inet::IPAddress::FromString succeeds      *)
(*   port                      : jint                                      *)
(*   textPresent, textData     : textEntries != nullptr, and for each key  *)
(*                               in backend order whether getTextEntryData *)
(*                               returns a byte array (TRUE) or null       *)
(*   failAt                    : which new (std::nothrow) of this call     *)
(*                               returns nullptr (0: none); the entry list *)
(*                               is allocation 1, the data buffers follow  *)
(*   callbackHandle            : the jlong callback handle, 0 for nullptr  *)
(* Heap buffers are named <<"entries", 0>>, <<"key", i>>, <<"data", i>>.   *)
(***************************************************************************)
NoService == [present |-> FALSE]

\* entries[] after memset(entries, 0, ...)
ZeroedEntries(size) == [i \in 1..size |-> [mKey |-> FALSE, mData |-> FALSE]]

\* The for loop over the keys.  st.allocs counts the new (std::nothrow) calls
\* made so far, st.mTextEntrySize is service.mTextEntrySize.  A failed data
\* allocation leaves the loop at once (VerifyOrExit).
RECURSIVE BuildTextEntries(_, _, _, _)
BuildTextEntries(textData, failAt, i, st) ==
    IF i > Len(textData) THEN st
    ELSE LET withKey == [st EXCEPT !.entries[i].mKey = TRUE]
         IN  IF textData[i]
             THEN IF st.allocs + 1 = failAt
                  THEN [withKey EXCEPT !.allocs = @ + 1, !.failed = TRUE]
                  ELSE BuildTextEntries(textData, failAt, i + 1,
                           [withKey EXCEPT !.entries[i].mData = TRUE,
                                           !.allocs = @ + 1,
                                           !.mTextEntrySize = Len(textData)])
             ELSE BuildTextEntries(textData, failAt, i + 1,
                      [withKey EXCEPT !.mTextEntrySize = Len(textData)])

\* The "if (textEntries != nullptr)" block: the entry list, the size the record
\* announces, and whether the block was left through VerifyOrExit.
TextEntriesOf(in) ==
    IF ~in.textPresent
    THEN [hasEntries |-> FALSE, entries |-> <<>>, mTextEntrySize |-> 0,
          allocs |-> 0, failed |-> FALSE]
    ELSE IF in.failAt = 1
    THEN [hasEntries |-> FALSE, entries |-> <<>>, mTextEntrySize |-> 0,
          allocs |-> 1, failed |-> TRUE]
    ELSE BuildTextEntries(in.textData, in.failAt, 1,
             [hasEntries |-> TRUE, entries |-> ZeroedEntries(Len(in.textData)),
              mTextEntrySize |-> 0, allocs |-> 1, failed |-> FALSE])

\* buffers that a built entry list holds
TextHeap(t) ==
    (IF t.hasEntries THEN {<<"entries", 0>>} ELSE {})
        \cup {<<"key", i>> : i \in {j \in 1..Len(t.entries) : t.entries[j].mKey}}
        \cup {<<"data", i>> : i \in {j \in 1..Len(t.entries) : t.entries[j].mData}}

\* ResolveError with the dispatch forgotten: a check that only returns
ResolveError_NoDispatch(error) ==
    [invoke |-> FALSE, error |-> error, service |-> NoService, addrCount |-> 0,
     text |-> TextEntriesOf([textPresent |-> FALSE]), allocFailed |-> FALSE]

\* a dispatch(error) with the default arguments service = nullptr, address = nullptr
ResolveError(error) ==
    [invoke |-> TRUE, error |-> error, service |-> NoService, addrCount |-> 0,
     text |-> TextEntriesOf([textPresent |-> FALSE]), allocFailed |-> FALSE]

\* ResolveValidate with the first check testing the address only, not the port
ResolveValidate_PortUnchecked(in) ==
    IF ~in.addressPresent THEN CHIP_ERROR_UNKNOWN_RESOURCE_ID
    ELSE IF ~(Len(in.instanceName) <= kInstanceNameMaxLength) THEN CHIP_ERROR_INVALID_ARGUMENT
    ELSE IF ~(Len(in.serviceType) <= kDnssdTypeAndProtocolMaxSize)
    THEN CHIP_ERROR_INVALID_ARGUMENT
    ELSE IF ~(in.port >= 0 /\ in.port <= UINT16_MAX) THEN CHIP_ERROR_INVALID_ARGUMENT
    ELSE IF ~in.addressParses THEN CHIP_ERROR_INVALID_ARGUMENT
    ELSE IF extractProtocol(in.serviceType, kDnssdTypeMaxSize + 1).err # CHIP_NO_ERROR
    THEN CHIP_ERROR_INVALID_ARGUMENT
    ELSE CHIP_NO_ERROR

\* The VerifyOrReturn checks of HandleResolve behind the callback check, in
\* order: the error that is dispatched, CHIP_NO_ERROR when the record is built.
ResolveValidate(in) ==
    IF ~(in.addressPresent /\ in.port # 0) THEN CHIP_ERROR_UNKNOWN_RESOURCE_ID
    ELSE IF ~(Len(in.instanceName) <= kInstanceNameMaxLength) THEN CHIP_ERROR_INVALID_ARGUMENT
    ELSE IF ~(Len(in.serviceType) <= kDnssdTypeAndProtocolMaxSize)
    THEN CHIP_ERROR_INVALID_ARGUMENT
    ELSE IF ~(in.port >= 0 /\ in.port <= UINT16_MAX) THEN CHIP_ERROR_INVALID_ARGUMENT
    ELSE IF ~in.addressParses THEN CHIP_ERROR_INVALID_ARGUMENT
    ELSE IF extractProtocol(in.serviceType, kDnssdTypeMaxSize + 1).err # CHIP_NO_ERROR
    THEN CHIP_ERROR_INVALID_ARGUMENT
    ELSE CHIP_NO_ERROR

\* HandleResolve up to and including the choice of the dispatch: whether the
\* callback is invoked, with which error, record and address count, and the
\* entry list built for it.  The dispatch at the exit label always passes
\* CHIP_NO_ERROR, the record and the address.
ResolveBuild(in) ==
    IF in.callbackHandle = 0
    THEN [ResolveError(CHIP_NO_ERROR) EXCEPT !.invoke = FALSE]
    ELSE IF ResolveValidate(in) # CHIP_NO_ERROR
    THEN ResolveError(ResolveValidate(in))
    ELSE LET p == extractProtocol(in.serviceType, kDnssdTypeMaxSize + 1)
             t == TextEntriesOf(in)
         IN  [invoke |-> TRUE, error |-> CHIP_NO_ERROR,
              service |-> [present |-> TRUE,
                           mName |-> in.instanceName,
                           mType |-> p.name,
                           mProtocol |-> p.protocol,
                           mPort |-> in.port,
                           mTextEntrySize |-> t.mTextEntrySize,
                           mTextEntries |-> t.entries],
              addrCount |-> 1,
              text |-> t,
              allocFailed |-> t.failed]

\* The exit section after the dispatch: the buffers released, in order.
\* delete[] of a null key pointer releases nothing.
RECURSIVE ReleaseEntries(_, _, _)
ReleaseEntries(entries, size, i) ==
    IF i > size THEN <<>>
    ELSE (IF entries[i].mKey THEN << <<"key", i>> >> ELSE <<>>)
             \o (IF entries[i].mData THEN << <<"data", i>> >> ELSE <<>>)
             \o ReleaseEntries(entries, size, i + 1)

ResolveRelease(b) ==
    IF b.text.hasEntries
    THEN ReleaseEntries(b.text.entries, b.text.mTextEntrySize, 1)
             \o << <<"entries", 0>> >>
    ELSE <<>>

(***************************************************************************)
(* Result marshaller, browse path (HandleBrowse).                          *)
(* A browse batch is a record instanceName (sequence of strings),          *)
(* serviceType, callbackHandle.  The record array is <<"service", 0>>.     *)
(***************************************************************************)
\* BrowseLoop filling the array from its end: the records come out in the
\* reverse of the order of the names
RECURSIVE BrowseLoop_Reversed(_, _, _, _)
BrowseLoop_Reversed(names, serviceType, i, acc) ==
    IF i > Len(names) THEN [err |-> CHIP_NO_ERROR, services |-> acc]
    ELSE IF ~(Len(names[i]) <= kInstanceNameMaxLength)
    THEN [err |-> CHIP_ERROR_INVALID_ARGUMENT, services |-> acc]
    ELSE LET p == extractProtocol(serviceType, kDnssdTypeMaxSize + 1)
         IN  IF p.err # CHIP_NO_ERROR
             THEN [err |-> CHIP_ERROR_INVALID_ARGUMENT, services |-> acc]
             ELSE BrowseLoop_Reversed(names, serviceType, i + 1,
                      <<[mName |-> names[i], mType |-> p.name,
                         mProtocol |-> p.protocol]>> \o acc)

\* The for loop over the names: err, and the records filled so far.
RECURSIVE BrowseLoop(_, _, _, _)
BrowseLoop(names, serviceType, i, acc) ==
    IF i > Len(names) THEN [err |-> CHIP_NO_ERROR, services |-> acc]
    ELSE IF ~(Len(names[i]) <= kInstanceNameMaxLength)
    THEN [err |-> CHIP_ERROR_INVALID_ARGUMENT, services |-> acc]
    ELSE LET p == extractProtocol(serviceType, kDnssdTypeMaxSize + 1)
         IN  IF p.err # CHIP_NO_ERROR
             THEN [err |-> CHIP_ERROR_INVALID_ARGUMENT, services |-> acc]
             ELSE BrowseLoop(names, serviceType, i + 1,
                      Append(acc, [mName |-> names[i], mType |-> p.name,
                                   mProtocol |-> p.protocol]))

\* BrowseBuild delivering the records filled before the bad entry
BrowseBuild_PartialList(in) ==
    LET r == BrowseLoop(in.instanceName, in.serviceType, 1, <<>>)
    IN  [invoke |-> in.callbackHandle # 0, error |-> CHIP_NO_ERROR, hasService |-> TRUE,
         services |-> r.services, size |-> Len(r.services), finalBrowse |-> TRUE,
         allocated |-> {<<"service", 0>>}]

\* BrowseBuild looking the callback up in the live sessions and failing the
\* batch when StopBrowse has already deleted the session
BrowseBuild_NeedsSession(in) ==
    LET r == BrowseLoop(in.instanceName, in.serviceType, 1, <<>>)
        known == \E i \in LiveSessions : sessions[i].callback = in.callbackHandle
    IN  IF r.err # CHIP_NO_ERROR \/ ~known
        THEN [invoke |-> in.callbackHandle # 0, error |-> CHIP_ERROR_INVALID_ARGUMENT,
              hasService |-> FALSE, services |-> <<>>, size |-> 0,
              finalBrowse |-> TRUE, allocated |-> {<<"service", 0>>}]
        ELSE [invoke |-> TRUE, error |-> CHIP_NO_ERROR, hasService |-> TRUE,
              services |-> r.services, size |-> Len(in.instanceName),
              finalBrowse |-> TRUE, allocated |-> {<<"service", 0>>}]

\* HandleBrowse up to and including the choice of the dispatch.  allocated is
\* the set of buffers obtained (new DnssdService[size]).
BrowseBuild(in) ==
    IF in.callbackHandle = 0
    THEN [invoke |-> FALSE, error |-> CHIP_NO_ERROR, hasService |-> FALSE,
          services |-> <<>>, size |-> 0, finalBrowse |-> TRUE, allocated |-> {}]
    ELSE LET r == BrowseLoop(in.instanceName, in.serviceType, 1, <<>>)
         IN  IF r.err # CHIP_NO_ERROR
             THEN [invoke |-> TRUE, error |-> r.err, hasService |-> FALSE,
                   services |-> <<>>, size |-> 0, finalBrowse |-> TRUE,
                   allocated |-> {<<"service", 0>>}]
             ELSE [invoke |-> TRUE, error |-> CHIP_NO_ERROR, hasService |-> TRUE,
                   services |-> r.services, size |-> Len(in.instanceName),
                   finalBrowse |-> TRUE, allocated |-> {<<"service", 0>>}]

\* What HandleBrowse releases after the dispatch: delete[] service is reached
\* only behind the successful dispatch; the error paths return from the loop.
BrowseRelease(b) ==
    IF b.invoke /\ b.error = CHIP_NO_ERROR THEN << <<"service", 0>> >> ELSE <<>>

\* non-null callback function pointers of the caller: DnssdBrowseCallback and
\* DnssdResolveCallback are different function types
BrowseCallbacks == {1}
ResolveCallbacks == {3}

Unbound ==
    [sResolverObject |-> FALSE, sBrowserObject |-> FALSE, sMdnsCallbackObject |-> FALSE,
     sResolveMethod |-> FALSE, sBrowseMethod |-> FALSE, sStopBrowseMethod |-> FALSE,
     sGetTextEntryKeysMethod |-> FALSE, sGetTextEntryDataMethod |-> FALSE,
     sPublishMethod |-> FALSE, sRemoveServicesMethod |-> FALSE]

\* every reference and method id set
Bound == [n \in DOMAIN Unbound |-> TRUE]

MethodNames ==
    {"sResolveMethod", "sBrowseMethod", "sStopBrowseMethod", "sGetTextEntryKeysMethod",
     "sGetTextEntryDataMethod", "sPublishMethod", "sRemoveServicesMethod"}

\* outcomes of the seven GetMethodID lookups: each one finds its method or
\* leaves its id null, whatever the others do
MethodOutcomes == [MethodNames -> BOOLEAN]

NoCall == [op |-> "none"]
NoRet == [op |-> "none"]
NoDelivery == [kind |-> "none"]
NoCodec == [step |-> "none"]

Init ==
    /\ bound = Unbound
    /\ lock = "free"
    /\ sessions = <<>>
    /\ bkBrowse = {}
    /\ bkStopped = {}
    /\ bkResolve = {}
    /\ pc = "outside"
    /\ call = NoCall
    /\ ret = NoRet
    /\ bpc = "idle"
    /\ dlv = NoDelivery
    /\ codec = NoCodec

(***************************************************************************)
(* Binding (InitializeWithObjects), called by the caller thread between    *)
(* two operations, with or without the stack lock.                         *)
(* JniGlobalReference::Init fails for a null object and for a reference    *)
(* that is already set, and the function returns at the first Init that    *)
(* fails: a call made when sResolverObject is set changes nothing.  found  *)
(* says which GetMethodID lookups succeed; an id whose lookup fails is     *)
(* null, the function logs it and goes on.                                 *)
(***************************************************************************)
InitializeWithObjects ==
    /\ Running
    /\ pc \in {"outside", "idle"}
    /\ \E resolverObject, browserObject, mdnsCallbackObject \in BOOLEAN :
          IF ~resolverObject \/ bound.sResolverObject THEN bound' = bound
          ELSE IF ~browserObject THEN bound' = [bound EXCEPT !.sResolverObject = TRUE]
          ELSE IF ~mdnsCallbackObject
          THEN bound' = [bound EXCEPT !.sResolverObject = TRUE, !.sBrowserObject = TRUE]
          ELSE \E found \in MethodOutcomes :
                  bound' =
                     [sResolverObject |-> TRUE, sBrowserObject |-> TRUE,
                      sMdnsCallbackObject |-> TRUE,
                      sGetTextEntryKeysMethod |-> found.sGetTextEntryKeysMethod,
                      sGetTextEntryDataMethod |-> found.sGetTextEntryDataMethod,
                      sResolveMethod |-> found.sResolveMethod,
                      sBrowseMethod |-> found.sBrowseMethod,
                      sStopBrowseMethod |-> found.sStopBrowseMethod,
                      sPublishMethod |-> found.sPublishMethod,
                      sRemoveServicesMethod |-> found.sRemoveServicesMethod]
    /\ UNCHANGED <<codec, lock, sessions, bkBrowse, bkStopped, bkResolve, pc, call, ret, bpc, dlv>>

(***************************************************************************)
(* The caller thread takes the stack lock before it calls a public         *)
(* operation and gives it up afterwards.                                   *)
(***************************************************************************)
LockChipStack ==
    /\ Running
    /\ pc = "outside"
    /\ lock = "free"
    /\ lock' = "caller"
    /\ pc' = "idle"
    /\ UNCHANGED <<codec, bound, sessions, bkBrowse, bkStopped, bkResolve, call, ret, bpc, dlv>>

UnlockChipStack ==
    /\ Running
    /\ pc = "idle"
    /\ lock' = "free"
    /\ pc' = "outside"
    /\ UNCHANGED <<codec, bound, sessions, bkBrowse, bkStopped, bkResolve, call, ret, bpc, dlv>>

(***************************************************************************)
(* Public operations.  A returned operation leaves in ret:                 *)
(*   op, err   the operation and its CHIP_ERROR                            *)
(*   argsOk    the arguments pass every argument check the operation makes *)
(*             on entry (PublishService: the service and the two counts;   *)
(*             it tests the data sizes later, inside the loop that builds  *)
(*             the arrays)                                                 *)
(*   ptrOk     the pointer arguments it tests are non-null (type, service, *)
(*             callback), the browse identifier is not 0                   *)
(*   boundOk   every reference and method id the operation tests was set   *)
(*   calls     how many times it invoked its backend method                *)
(*   id, cb    the browse identifier and the callback it dealt with        *)
(*   invoked   callbacks it invoked synchronously                          *)
(***************************************************************************)
Returned(op, err, argsOk, ptrOk, boundOk, calls, id, cb, invoked) ==
    [op |-> op, err |-> err, argsOk |-> argsOk, ptrOk |-> ptrOk, boundOk |-> boundOk,
     calls |-> calls, id |-> id, cb |-> cb, invoked |-> invoked]

\* an operation that returns without a backend call and without touching state
ReturnsAtOnce(r) ==
    /\ pc' = "returned"
    /\ ret' = r
    /\ UNCHANGED <<codec, bound, lock, sessions, bkBrowse, bkStopped, bkResolve, call, bpc, dlv>>

\* DeviceLayer::StackUnlock around the backend call: which operations have it
StackUnlockAround(op) == op \in {"Resolve", "PublishService", "RemoveServices"}

\* an operation that passed its checks and now executes its backend method;
\* argsOk says whether its arguments pass every argument check
CallsBackend(op, id, cb, argsOk) ==
    /\ pc' = "inBackend"
    /\ call' = [op |-> op, id |-> id, cb |-> cb, argsOk |-> argsOk, exception |-> FALSE]
    /\ lock' = IF StackUnlockAround(op) THEN "free" ELSE lock
    /\ UNCHANGED <<codec, bound, sessions, bkBrowse, bkStopped, bkResolve, ret, bpc, dlv>>

ChipDnssdInit ==
    /\ Running
    /\ pc = "idle"
    /\ \E initCallback, errorCallback \in BOOLEAN :
          IF ~initCallback \/ ~errorCallback
          THEN ReturnsAtOnce(Returned("Init", CHIP_ERROR_INVALID_ARGUMENT,
                                      FALSE, FALSE, TRUE, 0, 0, 0, 0))
          ELSE ReturnsAtOnce(Returned("Init", CHIP_NO_ERROR, TRUE, TRUE, TRUE, 0, 0, 0, 1))

\* ChipDnssdShutdown deleting the browse sessions that are still allocated
ChipDnssdShutdown_ReclaimsSessions ==
    /\ Running
    /\ pc = "idle"
    /\ pc' = "returned"
    /\ ret' = Returned("Shutdown", CHIP_NO_ERROR, TRUE, TRUE, TRUE, 0, 0, 0, 0)
    /\ sessions' = [i \in 1..Len(sessions) |->
                       IF sessions[i].deletes = 0 THEN [callback |-> 0, deletes |-> 1]
                       ELSE sessions[i]]
    /\ UNCHANGED <<codec, bound, lock, bkBrowse, bkStopped, bkResolve, call, bpc, dlv>>

ChipDnssdShutdown ==
    /\ Running
    /\ pc = "idle"
    /\ ReturnsAtOnce(Returned("Shutdown", CHIP_NO_ERROR, TRUE, TRUE, TRUE, 0, 0, 0, 0))

ChipDnssdFinalizeServiceUpdate ==
    /\ Running
    /\ pc = "idle"
    /\ ReturnsAtOnce(Returned("FinalizeServiceUpdate", CHIP_NO_ERROR, TRUE, TRUE, TRUE, 0, 0, 0, 0))

ChipDnssdResolveNoLongerNeeded ==
    /\ Running
    /\ pc = "idle"
    /\ ReturnsAtOnce(Returned("ResolveNoLongerNeeded", CHIP_NO_ERROR, TRUE, TRUE, TRUE, 0, 0, 0, 0))

ChipDnssdReconfirmRecord ==
    /\ Running
    /\ pc = "idle"
    /\ ReturnsAtOnce(Returned("ReconfirmRecord", CHIP_ERROR_NOT_IMPLEMENTED,
                              TRUE, TRUE, TRUE, 0, 0, 0, 0))

(***************************************************************************)
(* The checks each backend operation makes before its backend call, in the *)
(* order of the code: CHIP_NO_ERROR means the backend method is called.    *)
(* b is the binding state, envOk says GetEnvForCurrentThread is non-null.  *)
(***************************************************************************)
RemoveServicesCheck(b) ==
    IF ~(b.sResolverObject /\ b.sRemoveServicesMethod) THEN CHIP_ERROR_INCORRECT_STATE
    ELSE CHIP_NO_ERROR

\* dataSize is the largest mDataSize of the text entries; the loop that tests
\* it runs only when there are text entries
PublishServiceCheck(serviceNull, textEntrySize, subTypeSize, dataSize, b) ==
    IF serviceNull THEN CHIP_ERROR_INVALID_ARGUMENT
    ELSE IF ~(b.sResolverObject /\ b.sPublishMethod) THEN CHIP_ERROR_INCORRECT_STATE
    ELSE IF ~CanCastToUint32(textEntrySize) THEN CHIP_ERROR_INVALID_ARGUMENT
    ELSE IF ~CanCastToUint32(subTypeSize) THEN CHIP_ERROR_INVALID_ARGUMENT
    ELSE IF textEntrySize.lo > 0 /\ ~CanCastToUint32(dataSize) THEN CHIP_ERROR_INVALID_ARGUMENT
    ELSE CHIP_NO_ERROR

\* BrowseCheck with the first check testing the type only, not the callback
BrowseCheck_CallbackUnchecked(typeNull, callback, envOk, b) ==
    IF typeNull THEN CHIP_ERROR_INVALID_ARGUMENT
    ELSE IF ~(b.sBrowserObject /\ b.sBrowseMethod) THEN CHIP_ERROR_INVALID_ARGUMENT
    ELSE IF ~b.sMdnsCallbackObject THEN CHIP_ERROR_INCORRECT_STATE
    ELSE IF ~envOk THEN CHIP_JNI_ERROR_NO_ENV
    ELSE CHIP_NO_ERROR

BrowseCheck(typeNull, callback, envOk, b) ==
    IF ~(~typeNull /\ callback # 0) THEN CHIP_ERROR_INVALID_ARGUMENT
    ELSE IF ~(b.sBrowserObject /\ b.sBrowseMethod) THEN CHIP_ERROR_INVALID_ARGUMENT
    ELSE IF ~b.sMdnsCallbackObject THEN CHIP_ERROR_INCORRECT_STATE
    ELSE IF ~envOk THEN CHIP_JNI_ERROR_NO_ENV
    ELSE CHIP_NO_ERROR

StopBrowseCheck(browseIdentifier, envOk, b) ==
    IF ~(browseIdentifier # 0) THEN CHIP_ERROR_INVALID_ARGUMENT
    ELSE IF ~(b.sBrowserObject /\ b.sStopBrowseMethod) THEN CHIP_ERROR_INVALID_ARGUMENT
    ELSE IF ~envOk THEN CHIP_JNI_ERROR_NO_ENV
    ELSE CHIP_NO_ERROR

ResolveCheck(serviceNull, callback, b) ==
    IF ~(~serviceNull /\ callback # 0) THEN CHIP_ERROR_INVALID_ARGUMENT
    ELSE IF ~(b.sResolverObject /\ b.sResolveMethod) THEN CHIP_ERROR_INCORRECT_STATE
    ELSE IF ~b.sMdnsCallbackObject THEN CHIP_ERROR_INCORRECT_STATE
    ELSE CHIP_NO_ERROR

\* AfterCall without the ExceptionCheck: a fault of the backend is swallowed
AfterCall_Swallowed(exception) == CHIP_NO_ERROR

\* the error an operation returns behind its backend call: ExceptionCheck,
\* ExceptionClear and CHIP_JNI_ERROR_EXCEPTION_THROWN when an exception is pending
AfterCall(exception) ==
    IF exception THEN CHIP_JNI_ERROR_EXCEPTION_THROWN ELSE CHIP_NO_ERROR

(***************************************************************************)
(* Entry of the operations that call the backend.  envOk says that         *)
(* GetEnvForCurrentThread gives the calling thread a JNI environment.      *)
(* Browse and StopBrowse test the pointer; RemoveServices, PublishService  *)
(* and Resolve use it untested, and a call through the null pointer ends   *)
(* the process.                                                            *)
(***************************************************************************)
\* a fatal signal on the caller thread
CallerAborts ==
    /\ pc' = "aborted"
    /\ UNCHANGED <<codec, bound, lock, sessions, bkBrowse, bkStopped, bkResolve, call, ret, bpc, dlv>>

\* the constructor of a StackUnlock releases the stack lock in an operation
\* that has no environment: the operation stands in front of its backend call
StackUnlockWithoutEnv ==
    /\ pc' = "unlocked"
    /\ lock' = "free"
    /\ UNCHANGED <<codec, bound, sessions, bkBrowse, bkStopped, bkResolve, call, ret, bpc, dlv>>

\* env->CallVoidMethod through the null environment, inside the scope of the
\* StackUnlock: the backend thread may have taken the lock meanwhile
CallThroughNullEnv ==
    /\ Running
    /\ pc = "unlocked"
    /\ CallerAborts

\* the null environment is first used for the backend call, behind the
\* StackUnlock
ChipDnssdRemoveServices ==
    /\ Running
    /\ pc = "idle"
    /\ \E envOk \in BOOLEAN :
          LET e == RemoveServicesCheck(bound)
          IN  IF e # CHIP_NO_ERROR
              THEN ReturnsAtOnce(Returned("RemoveServices", e, TRUE, TRUE,
                       bound.sResolverObject /\ bound.sRemoveServicesMethod, 0, 0, 0, 0))
              ELSE IF ~envOk THEN StackUnlockWithoutEnv
              ELSE CallsBackend("RemoveServices", 0, 0, TRUE)

\* the environment is used for the name strings and FindClass, behind the
\* checks of the service, the binding and the two counts and in front of the
\* loop that tests the data sizes
ChipDnssdPublishService ==
    /\ Running
    /\ pc = "idle"
    /\ \E serviceNull, envOk \in BOOLEAN :
       \E textEntrySize \in Sizes :
       \E subTypeSize, dataSize \in {SizeT(0, 0), SizeT(1, 0)} :
          LET e == PublishServiceCheck(serviceNull, textEntrySize, subTypeSize, dataSize, bound)
              argsOk == /\ ~serviceNull
                        /\ CanCastToUint32(textEntrySize)
                        /\ CanCastToUint32(subTypeSize)
              reachesEnv == PublishServiceCheck(serviceNull, textEntrySize, subTypeSize,
                                                SizeT(0, 0), bound) = CHIP_NO_ERROR
          IN  IF reachesEnv /\ ~envOk THEN CallerAborts
              ELSE IF e # CHIP_NO_ERROR
              THEN ReturnsAtOnce(Returned("PublishService", e, argsOk, ~serviceNull,
                       bound.sResolverObject /\ bound.sPublishMethod, 0, 0, 0, 0))
              ELSE CallsBackend("PublishService", 0, 0, argsOk)

ChipDnssdBrowse ==
    /\ Running
    /\ pc = "idle"
    /\ Len(sessions) < MaxSessions
    /\ \E typeNull, envOk \in BOOLEAN :
       \E callback \in BrowseCallbacks \cup {0} :
          LET e == BrowseCheck(typeNull, callback, envOk, bound)
              argsOk == ~typeNull /\ callback # 0
          IN  IF e # CHIP_NO_ERROR
              THEN ReturnsAtOnce(Returned("Browse", e, argsOk, argsOk,
                       bound.sBrowserObject /\ bound.sBrowseMethod
                           /\ bound.sMdnsCallbackObject, 0, 0, callback, 0))
              ELSE CallsBackend("Browse", 0, callback, argsOk)

\* The identifier is 0, one that Browse issued and StopBrowse has not yet
\* reclaimed, or one that StopBrowse has reclaimed: the function tests it
\* against 0 only.  ctx->callback is read for the argument list of the backend
\* call; read from a deleted BrowseContext it is undefined: it yields any
\* callback value, or the read ends the process.
ChipDnssdStopBrowse ==
    /\ Running
    /\ pc = "idle"
    /\ \E browseIdentifier \in
             {i \in 1..Len(sessions) : sessions[i].deletes < MaxDeletes} \cup {0} :
       \E envOk \in BOOLEAN :
          LET e == StopBrowseCheck(browseIdentifier, envOk, bound)
              argsOk == browseIdentifier # 0
          IN  IF e # CHIP_NO_ERROR
              THEN ReturnsAtOnce(Returned("StopBrowse", e, argsOk, argsOk,
                       bound.sBrowserObject /\ bound.sStopBrowseMethod,
                       0, browseIdentifier, 0, 0))
              ELSE IF browseIdentifier \in LiveSessions
              THEN CallsBackend("StopBrowse", browseIdentifier,
                                sessions[browseIdentifier].callback, argsOk)
              ELSE \/ \E callback \in BrowseCallbacks \cup {0} :
                         CallsBackend("StopBrowse", browseIdentifier, callback, argsOk)
                   \/ CallerAborts

\* the environment is used for the two strings, in front of the StackUnlock,
\* and for the backend call behind it: the process ends at the first use that
\* reads through the null pointer, at the strings or, the lock released, at
\* the call
ChipDnssdResolve ==
    /\ Running
    /\ pc = "idle"
    /\ \E serviceNull, envOk \in BOOLEAN :
       \E callback \in ResolveCallbacks \cup {0} :
          LET e == ResolveCheck(serviceNull, callback, bound)
              argsOk == ~serviceNull /\ callback # 0
          IN  IF e # CHIP_NO_ERROR
              THEN ReturnsAtOnce(Returned("Resolve", e, argsOk, argsOk,
                       bound.sResolverObject /\ bound.sResolveMethod
                           /\ bound.sMdnsCallbackObject, 0, 0, callback, 0))
              ELSE IF ~envOk THEN CallerAborts \/ StackUnlockWithoutEnv
              ELSE CallsBackend("Resolve", 0, callback, argsOk)

(***************************************************************************)
(* The backend method that a public operation called comes back, with or   *)
(* without a pending Java exception.  Without one the backend has taken    *)
(* the request: browse starts a browse for the callback handle,            *)
(* stopDiscover ends it (one more batch may follow), resolve owes one      *)
(* result.                                                                 *)
(***************************************************************************)
BackendMethodReturns ==
    /\ Running
    /\ pc = "inBackend"
    /\ \E exception \in BOOLEAN :
          /\ call' = [call EXCEPT !.exception = exception]
          /\ bkBrowse' =
                IF exception THEN bkBrowse
                ELSE IF call.op = "Browse" THEN bkBrowse \cup {call.cb}
                ELSE IF call.op = "StopBrowse" THEN bkBrowse \ {call.cb}
                ELSE bkBrowse
          /\ bkStopped' =
                IF exception THEN bkStopped
                ELSE IF call.op = "Browse" THEN bkStopped \ {call.cb}
                ELSE IF call.op = "StopBrowse" /\ call.cb \in bkBrowse
                     THEN bkStopped \cup {call.cb}
                ELSE bkStopped
          /\ bkResolve' =
                IF ~exception /\ call.op = "Resolve" THEN bkResolve \cup {call.cb}
                ELSE bkResolve
    /\ pc' = "afterBackend"
    /\ UNCHANGED <<codec, bound, lock, sessions, ret, bpc, dlv>>

(***************************************************************************)
(* The operations behind their backend call.                               *)
(***************************************************************************)
\* the destructor of StackUnlock takes the stack lock again, then the
\* exception check decides the result
ReturnsAfterUnlock(op) ==
    /\ Running
    /\ pc = "afterBackend"
    /\ call.op = op
    /\ lock = "free"
    /\ lock' = "caller"
    /\ pc' = "returned"
    /\ ret' = Returned(op, AfterCall(call.exception), call.argsOk, call.argsOk, TRUE,
                       1, 0, call.cb, 0)
    /\ call' = NoCall
    /\ UNCHANGED <<codec, bound, sessions, bkBrowse, bkStopped, bkResolve, bpc, dlv>>

ChipDnssdRemoveServices_Return == ReturnsAfterUnlock("RemoveServices")

ChipDnssdPublishService_Return == ReturnsAfterUnlock("PublishService")

ChipDnssdResolve_Return == ReturnsAfterUnlock("Resolve")

\* NewBrowseContext with the callback not stored in the new object
NewBrowseContext_NoCallback(s, callback) == Append(s, [callback |-> 0, deletes |-> 0])

\* chip::Platform::New<BrowseContext>(callback)
NewBrowseContext(s, callback) == Append(s, [callback |-> callback, deletes |-> 0])

\* allocOk says chip::Platform::New returned an object
ChipDnssdBrowse_Return ==
    /\ Running
    /\ pc = "afterBackend"
    /\ call.op = "Browse"
    /\ \E allocOk \in BOOLEAN :
          IF call.exception
          THEN /\ ret' = Returned("Browse", AfterCall(call.exception),
                                  call.argsOk, call.argsOk, TRUE, 1, 0, call.cb, 0)
               /\ sessions' = sessions
          ELSE IF ~allocOk
          THEN /\ ret' = Returned("Browse", CHIP_ERROR_NO_MEMORY,
                                  call.argsOk, call.argsOk, TRUE, 1, 0, call.cb, 0)
               /\ sessions' = sessions
          ELSE /\ ret' = Returned("Browse", CHIP_NO_ERROR, call.argsOk, call.argsOk, TRUE, 1,
                                  Len(sessions) + 1, call.cb, 0)
               /\ sessions' = NewBrowseContext(sessions, call.cb)
    /\ pc' = "returned"
    /\ call' = NoCall
    /\ UNCHANGED <<codec, bound, lock, bkBrowse, bkStopped, bkResolve, bpc, dlv>>

\* DeleteBrowseContext placed behind the exception check: a fault keeps the session
DeleteBrowseContext_BehindCheck(s, id, exception) ==
    IF exception THEN s
    ELSE [s EXCEPT ![id] = [callback |-> 0, deletes |-> @.deletes + 1]]

\* chip::Platform::Delete(ctx), which comes before the exception check; the
\* deleted object no longer holds a callback
DeleteBrowseContext(s, id, exception) ==
    [s EXCEPT ![id] = [callback |-> 0, deletes |-> @.deletes + 1]]

\* chip::Platform::Delete of an object that is already deleted is undefined:
\* the allocator takes the block a second time, or it ends the process
ChipDnssdStopBrowse_Return ==
    /\ Running
    /\ pc = "afterBackend"
    /\ call.op = "StopBrowse"
    /\ \/ /\ sessions' = DeleteBrowseContext(sessions, call.id, call.exception)
          /\ ret' = Returned("StopBrowse", AfterCall(call.exception), call.argsOk,
                             call.argsOk, TRUE, 1, call.id, call.cb, 0)
          /\ pc' = "returned"
          /\ call' = NoCall
          /\ UNCHANGED <<codec, bound, lock, bkBrowse, bkStopped, bkResolve, bpc, dlv>>
       \/ /\ call.id \in StaleSessions
          /\ CallerAborts

\* the caller goes on behind the operation
ReturnToCaller ==
    /\ Running
    /\ pc = "returned"
    /\ pc' = "idle"
    /\ ret' = NoRet
    /\ UNCHANGED <<codec, bound, lock, sessions, bkBrowse, bkStopped, bkResolve, call, bpc, dlv>>

(***************************************************************************)
(* Results the backend delivers.                                           *)
(***************************************************************************)
SeqUpTo(S, n) == UNION {[1..k -> S] : k \in 0..n}

NameA == <<"a">>
NameB == <<"b">>
NameMax == Rep("n", kInstanceNameMaxLength)
NameLong == Rep("n", kInstanceNameMaxLength + 1)

BaseType == <<"_", "m">>
TypeTcp == GetFullType(BaseType, kDnssdProtocolTcp)
TypeUdp == GetFullType(BaseType, kDnssdProtocolUdp)
\* a suffix that is neither protocol, no '.' at all, a longer suffix
TypeXyz == BaseType \o <<".", "_", "x", "y", "z">>
TypeNoDot == BaseType
TypeTcpx == TypeTcp \o <<"x">>
\* the longest base name that fits mType, and one character more
TypeMaxBase == GetFullType(Rep("t", kDnssdTypeMaxSize), kDnssdProtocolUdp)
TypeLongBase == GetFullType(Rep("t", kDnssdTypeMaxSize + 1), kDnssdProtocolTcp)

WireTypes == {TypeTcp, TypeUdp, TypeXyz, TypeNoDot, TypeTcpx, TypeMaxBase, TypeLongBase}

\* every resolve result within the bounds (callbackHandle is filled in on delivery)
ResolveResults ==
    [instanceName : {NameA, NameMax, NameLong},
     serviceType : WireTypes,
     addressPresent : BOOLEAN,
     addressParses : BOOLEAN,
     port : {0, 5540, UINT16_MAX + 1},
     textPresent : BOOLEAN,
     textData : SeqUpTo(BOOLEAN, MaxTxt),
     failAt : 0..(MaxTxt + 1),
     callbackHandle : {0}]

\* every browse batch within the bounds
BrowseBatches ==
    [instanceName : SeqUpTo({NameA, NameB, NameMax, NameLong}, MaxBatch),
     serviceType : WireTypes,
     callbackHandle : {0}]

\* the few results that the interleaved specification delivers
SomeResolveResults ==
    {r \in ResolveResults :
        /\ r.instanceName = NameA
        /\ r.serviceType = TypeTcp
        /\ r.addressParses
        /\ r.port = 5540
        /\ r.failAt = 0
        /\ r.textPresent = r.addressPresent
        /\ r.textData = (IF r.textPresent THEN <<TRUE>> ELSE <<>>)}

SomeBrowseBatches ==
    {b \in BrowseBatches :
        /\ b.serviceType = TypeTcp
        /\ b.instanceName \in {<<NameA>>, <<NameA, NameLong>>}}

(***************************************************************************)
(* The backend thread: HandleResolve and HandleBrowse.                     *)
(* dlv holds the delivery in progress: kind, the result (in), what the     *)
(* handler decided to dispatch (out), the callback invocations made so     *)
(* far, the buffers it allocated and the buffers it released, in order.    *)
(***************************************************************************)
\* the arguments of one callback invocation
DispatchArgs(d) ==
    IF d.kind = "resolve"
    THEN [error |-> d.out.error, service |-> d.out.service, addrCount |-> d.out.addrCount]
    ELSE [error |-> d.out.error, hasService |-> d.out.hasService,
          services |-> d.out.services, size |-> d.out.size,
          finalBrowse |-> d.out.finalBrowse]

\* the JNI calls of the TXT block that are made with a null jmethodID:
\* getTextEntryKeys (line 433) whenever the block is entered, getTextEntryData
\* (line 446) for the first key, which needs the entry list allocated
NullMethodCalled(in, b) ==
    /\ in.textPresent
    /\ \/ ~b.sGetTextEntryKeysMethod
       \/ /\ ~b.sGetTextEntryDataMethod
          /\ Len(in.textData) > 0
          /\ in.failAt # 1

\* The handlers are native methods that the backend's Java code calls on a
\* thread of the JVM: GetEnvForCurrentThread gives such a thread its
\* environment, so the handlers have no envOk input.
\*
\* HandleResolve from its entry to the dispatch it chose; a handler that does
\* not dispatch goes straight to its return.  The TXT block is entered behind
\* the checks; CallObjectMethod with a method id that InitializeWithObjects
\* left null is undefined: the call ends the process (a fatal signal inside
\* the JVM), or it comes back and the handler goes on.
HandleResolve(results) ==
    /\ Running
    /\ bpc = "idle"
    /\ \E h \in bkResolve :
       \E r \in results :
          LET in == [r EXCEPT !.callbackHandle = h]
              b == ResolveBuild(in)
              undefined == /\ b.invoke
                           /\ b.error = CHIP_NO_ERROR
                           /\ NullMethodCalled(in, bound)
          IN  /\ \/ /\ dlv' = [kind |-> "resolve", in |-> in, out |-> b,
                               invocations |-> <<>>, allocated |-> TextHeap(b.text),
                               freed |-> <<>>]
                    /\ bpc' = IF b.invoke THEN "dispatch" ELSE "done"
                 \/ /\ undefined
                    /\ dlv' = [kind |-> "resolve", in |-> in,
                               out |-> [ResolveError(CHIP_NO_ERROR) EXCEPT !.invoke = FALSE],
                               invocations |-> <<>>, allocated |-> {}, freed |-> <<>>]
                    /\ bpc' = "aborted"
              /\ bkResolve' = bkResolve \ {h}
    /\ UNCHANGED <<codec, bound, lock, sessions, bkBrowse, bkStopped, pc, call, ret>>

\* HandleBrowse from its entry to the dispatch it chose.  The batch is for a
\* running browse or is the late batch of a stopped one.
HandleBrowse(batches) ==
    /\ Running
    /\ bpc = "idle"
    /\ \E h \in bkBrowse \cup bkStopped :
       \E r \in batches :
          LET in == [r EXCEPT !.callbackHandle = h]
              b == BrowseBuild(in)
          IN  /\ dlv' = [kind |-> "browse", in |-> in, out |-> b,
                         invocations |-> <<>>, allocated |-> b.allocated,
                         freed |-> <<>>]
              /\ bpc' = IF b.invoke THEN "dispatch" ELSE "done"
              /\ bkStopped' = IF h \in bkBrowse THEN bkStopped ELSE bkStopped \ {h}
    /\ UNCHANGED <<codec, bound, lock, sessions, bkBrowse, bkResolve, pc, call, ret>>

\* Dispatch_StackLock without the StackLock: the callback is invoked at once
Dispatch_NoStackLock ==
    /\ Running
    /\ bpc = "dispatch"
    /\ bpc' = "callback"
    /\ dlv' = [dlv EXCEPT !.invocations = Append(@, DispatchArgs(dlv))]
    /\ UNCHANGED <<codec, bound, lock, sessions, bkBrowse, bkStopped, bkResolve, pc, call, ret>>

\* dispatch: DeviceLayer::StackLock lock; then the callback is invoked
Dispatch_StackLock ==
    /\ Running
    /\ bpc = "dispatch"
    /\ lock = "free"
    /\ lock' = "backend"
    /\ bpc' = "callback"
    /\ dlv' = [dlv EXCEPT !.invocations = Append(@, DispatchArgs(dlv))]
    /\ UNCHANGED <<codec, bound, sessions, bkBrowse, bkStopped, bkResolve, pc, call, ret>>

\* The callback returns and the StackLock of the dispatch goes out of scope
Dispatch_Return ==
    /\ Running
    /\ bpc = "callback"
    /\ lock' = "free"
    /\ bpc' = "exit"
    /\ UNCHANGED <<codec, bound, sessions, bkBrowse, bkStopped, bkResolve, pc, call, ret, dlv>>

\* Behind the dispatch, without the stack lock: the handler releases its
\* buffers (the exit section of HandleResolve, delete[] service in
\* HandleBrowse) and returns; behind an error dispatch it only returns.
Handle_Exit ==
    /\ Running
    /\ bpc = "exit"
    /\ dlv' = [dlv EXCEPT !.freed =
                  IF dlv.kind = "resolve" THEN ResolveRelease(dlv.out)
                  ELSE BrowseRelease(dlv.out)]
    /\ bpc' = "done"
    /\ UNCHANGED <<codec, bound, lock, sessions, bkBrowse, bkStopped, bkResolve, pc, call, ret>>

\* the backend thread is back in the backend
Handle_Done ==
    /\ Running
    /\ bpc = "done"
    /\ bpc' = "idle"
    /\ dlv' = NoDelivery
    /\ UNCHANGED <<codec, bound, lock, sessions, bkBrowse, bkStopped, bkResolve, pc, call, ret>>

(***************************************************************************)
(* Specifications.                                                         *)
(***************************************************************************)
CallerNext ==
    \/ InitializeWithObjects
    \/ LockChipStack
    \/ UnlockChipStack
    \/ ChipDnssdInit
    \/ ChipDnssdShutdown
    \/ ChipDnssdFinalizeServiceUpdate
    \/ ChipDnssdResolveNoLongerNeeded
    \/ ChipDnssdReconfirmRecord
    \/ ChipDnssdRemoveServices
    \/ ChipDnssdPublishService
    \/ ChipDnssdBrowse
    \/ ChipDnssdStopBrowse
    \/ ChipDnssdResolve
    \/ CallThroughNullEnv
    \/ BackendMethodReturns
    \/ ChipDnssdRemoveServices_Return
    \/ ChipDnssdPublishService_Return
    \/ ChipDnssdResolve_Return
    \/ ChipDnssdBrowse_Return
    \/ ChipDnssdStopBrowse_Return
    \/ ReturnToCaller

DeliverySteps ==
    \/ Dispatch_StackLock
    \/ Dispatch_Return
    \/ Handle_Exit
    \/ Handle_Done

\* both threads, interleaved
Next ==
    \/ CallerNext
    \/ HandleResolve(SomeResolveResults)
    \/ HandleBrowse(SomeBrowseBatches)
    \/ DeliverySteps

Spec == Init /\ [][Next]_vars

\* The marshaller on its own: the backend thread delivers every result within
\* the bounds while the caller thread is outside this layer.  The state it
\* starts in is the one behind a Browse with callback 1 and a Resolve with
\* callback 3, which need the objects and their own methods bound; the two
\* methods of the callback class were found or not.
InitMarshal ==
    /\ bound \in {[Bound EXCEPT !.sGetTextEntryKeysMethod = keys,
                                !.sGetTextEntryDataMethod = data] :
                      keys, data \in BOOLEAN}
    /\ lock = "free"
    /\ sessions = NewBrowseContext(<<>>, 1)
    /\ bkBrowse = {1}
    /\ bkStopped = {}
    /\ bkResolve = {3}
    /\ pc = "outside"
    /\ call = NoCall
    /\ ret = NoRet
    /\ bpc = "idle"
    /\ dlv = NoDelivery
    /\ codec = NoCodec

NextMarshal ==
    \/ HandleResolve(ResolveResults)
    \/ HandleBrowse(BrowseBatches)
    \/ DeliverySteps

SpecMarshal == InitMarshal /\ [][NextMarshal]_vars

(***************************************************************************)
(* The service-type codec on its own.  A caller's (type, protocol) pair    *)
(* goes out through GetFullType (Resolve, line 281) or through             *)
(* GetFullTypeWithSubTypes (Browse, line 192); a wire type comes back and   *)
(* goes through extractProtocol (HandleResolve line 419, HandleBrowse line *)
(* 515, both with N = kDnssdTypeMaxSize + 1).  The wire type that comes    *)
(* back is the one that went out or one the backend made up.               *)
(***************************************************************************)
Matter == <<"_", "m", "a", "t", "t", "e", "r">>
Foo == <<"f", "o", "o">>
SubMarker == <<".", "_", "s", "u", "b", ".">>

\* every string of up to MaxTypeLen characters over a small alphabet, the
\* names at the limit of the mType buffer, names with a subtype marker in
\* either order, a name that ends in the marker without its last dot, and
\* names that contain a protocol suffix
CodecTypes ==
    SeqUpTo({"_", "m", "."}, MaxTypeLen)
        \cup {Matter, Rep("t", kDnssdTypeMaxSize), Rep("t", kDnssdTypeMaxSize + 1),
              Matter \o SubMarker \o Foo, Foo \o SubMarker \o Matter,
              BaseType \o SubMarker \o NameA \o SubMarker \o NameB,
              BaseType \o <<".", "_", "s", "u", "b">>,
              BaseType \o kProtocolTcp, BaseType \o kProtocolUdp}

CodecProtocols == {kDnssdProtocolTcp, kDnssdProtocolUdp, kDnssdProtocolUnknown}

\* wire types the backend makes up
CodecWireTypes ==
    WireTypes \cup SeqUpTo({"_", "m", "."}, MaxTypeLen)
        \cup {TypeUdp \o <<"x">>, BaseType \o kProtocolTcp \o kProtocolUdp,
              BaseType \o <<".", "_", "t", "c">>, BaseType \o <<".", "x", "_", "t", "c", "p">>,
              kProtocolTcp, kProtocolUdp}

NoDecode == [err |-> "none"]

CodecInput(type, protocol) ==
    [step |-> "input", type |-> type, protocol |-> protocol, wire |-> <<>>, out |-> NoDecode]

CodecWire(wire) ==
    [step |-> "wire", type |-> <<>>, protocol |-> kDnssdProtocolUnknown, wire |-> wire,
     out |-> NoDecode]

InitCodec ==
    /\ bound = Unbound
    /\ lock = "free"
    /\ sessions = <<>>
    /\ bkBrowse = {}
    /\ bkStopped = {}
    /\ bkResolve = {}
    /\ pc = "outside"
    /\ call = NoCall
    /\ ret = NoRet
    /\ bpc = "idle"
    /\ dlv = NoDelivery
    /\ codec \in {CodecInput(t, p) : t \in CodecTypes, p \in CodecProtocols}
                    \cup {CodecWire(w) : w \in CodecWireTypes}

CodecFrame ==
    UNCHANGED <<bound, lock, sessions, bkBrowse, bkStopped, bkResolve, pc, call, ret, bpc, dlv>>

\* GetFullType(type, protocol): the wire type that goes out
Codec_GetFullType ==
    /\ codec.step = "input"
    /\ codec' = [codec EXCEPT !.step = "fullType",
                              !.wire = GetFullType(codec.type, codec.protocol)]
    /\ CodecFrame

\* GetFullTypeWithSubTypes(type, protocol): the browse query that goes out
Codec_GetFullTypeWithSubTypes ==
    /\ codec.step = "input"
    /\ codec' = [codec EXCEPT !.step = "browseType",
                              !.wire = GetFullTypeWithSubTypes(codec.type, codec.protocol)]
    /\ CodecFrame

\* extractProtocol<kDnssdTypeMaxSize + 1>(wire, mType, mProtocol)
Codec_extractProtocol ==
    /\ codec.step \in {"fullType", "wire"}
    /\ codec' = [codec EXCEPT !.step = IF codec.step = "fullType" THEN "roundTrip"
                                       ELSE "decoded",
                              !.out = extractProtocol(codec.wire, kDnssdTypeMaxSize + 1)]
    /\ CodecFrame

NextCodec ==
    \/ Codec_GetFullType
    \/ Codec_GetFullTypeWithSubTypes
    \/ Codec_extractProtocol

SpecCodec == InitCodec /\ [][NextCodec]_vars

(***************************************************************************)
(* The two threads with a backend whose methods wait for a result delivery *)
(* that is under way: the backend method called by a public operation      *)
(* comes back only when no delivery is between its entry and its return.   *)
(* Scheduling is fair: a thread that waits for the stack lock gets it if   *)
(* the lock is free again and again, a backend method that waits for a     *)
(* delivery goes on once the delivery has returned, the caller gives the   *)
(* stack lock up again and again, and a step that nothing holds up is      *)
(* taken.  The backend is bound from the start.                            *)
(***************************************************************************)
InitBlocking ==
    /\ bound = Bound
    /\ lock = "free"
    /\ sessions = <<>>
    /\ bkBrowse = {}
    /\ bkStopped = {}
    /\ bkResolve = {}
    /\ pc = "outside"
    /\ call = NoCall
    /\ ret = NoRet
    /\ bpc = "idle"
    /\ dlv = NoDelivery
    /\ codec = NoCodec

\* no result delivery is between the entry of its handler and its return
NoDeliveryUnderWay == bpc \in {"idle", "done"}

BackendMethodReturns_AfterDelivery ==
    /\ NoDeliveryUnderWay
    /\ BackendMethodReturns

\* the steps of a public operation behind its backend call
OperationReturns ==
    \/ ChipDnssdRemoveServices_Return
    \/ ChipDnssdPublishService_Return
    \/ ChipDnssdResolve_Return
    \/ ChipDnssdBrowse_Return
    \/ ChipDnssdStopBrowse_Return

NextBlocking ==
    \/ LockChipStack
    \/ UnlockChipStack
    \/ ChipDnssdRemoveServices
    \/ ChipDnssdPublishService
    \/ ChipDnssdBrowse
    \/ ChipDnssdStopBrowse
    \/ ChipDnssdResolve
    \/ CallThroughNullEnv
    \/ BackendMethodReturns_AfterDelivery
    \/ OperationReturns
    \/ ReturnToCaller
    \/ HandleResolve(SomeResolveResults)
    \/ HandleBrowse(SomeBrowseBatches)
    \/ DeliverySteps

FairScheduling ==
    /\ SF_vars(Dispatch_StackLock)
    /\ WF_vars(Dispatch_Return)
    /\ WF_vars(Handle_Exit)
    /\ WF_vars(Handle_Done)
    /\ SF_vars(BackendMethodReturns_AfterDelivery)
    /\ SF_vars(OperationReturns)
    /\ WF_vars(ReturnToCaller)
    /\ SF_vars(UnlockChipStack)
    /\ WF_vars(CallThroughNullEnv)

SpecBlocking == InitBlocking /\ [][NextBlocking]_vars /\ FairScheduling

TypeOK ==
    /\ lock \in {"free", "caller", "backend"}
    /\ bound \in [DOMAIN Unbound -> BOOLEAN]
    /\ pc \in {"outside", "idle", "unlocked", "inBackend", "afterBackend", "returned",
             "aborted"}
    /\ pc = "unlocked" => lock # "caller"
    /\ bpc \in {"idle", "dispatch", "callback", "exit", "done", "aborted"}
    /\ \A i \in 1..Len(sessions) : sessions[i].deletes <= MaxDeletes
    /\ bkBrowse \subseteq BrowseCallbacks
    /\ bkStopped \subseteq BrowseCallbacks
    /\ bkBrowse \cap bkStopped = {}
    /\ bkResolve \subseteq ResolveCallbacks
    /\ Len(sessions) <= MaxSessions
    /\ (pc \in {"outside"}) => lock # "caller"

(***************************************************************************)
(* Properties.                                                             *)
(***************************************************************************)
\* a handler of the given kind has returned
HandlerReturned(kind) == bpc = "done" /\ dlv.kind = kind

\* a handler of the given kind has ended the process
HandlerAborted(kind) == bpc = "aborted" /\ dlv.kind = kind

\* how many times the buffer b occurs in the release sequence f
TimesReleased(f, b) == Cardinality({i \in 1..Len(f) : f[i] = b})

\* a public operation has returned
OperationReturned(op) == pc = "returned" /\ ret.op = op

BackendOperations == {"Browse", "StopBrowse", "Resolve", "PublishService", "RemoveServices"}

\* C1: while the backend method called by Browse, StopBrowse, Resolve,
\* PublishService or RemoveServices executes on the caller's thread, that
\* thread does not hold the stack lock.
C1_BackendCallWithoutLock ==
    pc = "inBackend" => lock # "caller"

\* C2: a result delivery invokes the callback only while the backend thread
\* holds the stack lock, for success and error dispatches alike: the lock is
\* taken before the callback starts, and the backend thread does not hold it
\* before the dispatch or once the handler has returned.
C2_CallbackUnderLock ==
    /\ bpc = "callback" => lock = "backend"
    /\ bpc \in {"idle", "dispatch", "exit", "done"} => lock # "backend"
    /\ bpc = "dispatch" => dlv.invocations = <<>>

C2_Witness ==
    /\ bpc = "callback"
    /\ lock = "backend"
    /\ dlv.kind = "browse"
    /\ dlv.out.error = CHIP_ERROR_INVALID_ARGUMENT
    /\ pc = "outside"

\* C3: every resolve completion delivered to HandleResolve invokes the resolve
\* callback exactly once, on every path, and the invocation carries either
\* success, the built record and one address, or an error, no record and no
\* address.  A handler that has ended, by its return or otherwise, has
\* invoked the callback.
C3_OneResolveDispatch ==
    /\ dlv.kind = "resolve" => Len(dlv.invocations) <= 1
    /\ (HandlerReturned("resolve") \/ HandlerAborted("resolve")) =>
          /\ Len(dlv.invocations) = 1
          /\ LET a == dlv.invocations[1]
             IN  \/ /\ a.error = CHIP_NO_ERROR
                    /\ a.service.present
                    /\ a.service.mName = dlv.in.instanceName
                    /\ a.addrCount = 1
                 \/ /\ a.error # CHIP_NO_ERROR
                    /\ a.service = NoService
                    /\ a.addrCount = 0

C3_Witness ==
    /\ HandlerReturned("resolve")
    /\ dlv.in.addressPresent
    /\ ~dlv.in.addressParses
    /\ dlv.in.textPresent
    /\ Len(dlv.invocations) = 1
    /\ dlv.invocations[1].error = CHIP_ERROR_INVALID_ARGUMENT

\* C4 as claimed: StopBrowse with a non-zero identifier issued by Browse
\* returns with that session destroyed exactly once, on every path.
C4_DestroyedOnEveryPath ==
    (OperationReturned("StopBrowse") /\ ret.id # 0) => sessions[ret.id].deletes = 1

\* the step in which StopBrowse returns, entered with an identifier that
\* Browse issued and StopBrowse has not yet reclaimed
StopBrowseReturns ==
    /\ pc' = "returned"
    /\ ret'.op = "StopBrowse"
    /\ ret'.id \in LiveSessions

\* C4 as amended: StopBrowse with an identifier issued by Browse and not yet
\* reclaimed destroys the session exactly once when it gets as far as the
\* backend call (browser object and stop method bound, JNI environment
\* available), whether the backend call succeeded or reported a fault; when
\* it returns before the backend call the session is still live.  No step
\* destroys a live session twice.
C4_DestroyedOnceBehindBackendCall ==
    [][/\ (pc = "afterBackend" /\ StopBrowseReturns) =>
              /\ ret'.calls = 1
              /\ sessions'[ret'.id].deletes = 1
              /\ ret'.err = (IF call.exception THEN CHIP_JNI_ERROR_EXCEPTION_THROWN
                             ELSE CHIP_NO_ERROR)
       /\ (pc = "idle" /\ StopBrowseReturns) =>
              /\ ~ret'.boundOk \/ ret'.err = CHIP_JNI_ERROR_NO_ENV
              /\ ret'.calls = 0
              /\ sessions' = sessions
              /\ ret'.err \in {CHIP_ERROR_INVALID_ARGUMENT, CHIP_JNI_ERROR_NO_ENV}
       /\ (pc = "idle" /\ pc' = "inBackend" /\ call'.op = "StopBrowse"
              /\ call'.id \in LiveSessions) =>
              /\ bound.sBrowserObject /\ bound.sStopBrowseMethod
              /\ call'.cb = sessions[call'.id].callback
       /\ \A i \in LiveSessions : sessions'[i].deletes <= 1]_vars

C4_Witness ==
    /\ OperationReturned("StopBrowse")
    /\ ret.id # 0
    /\ ret.err = CHIP_JNI_ERROR_EXCEPTION_THROWN
    /\ sessions[ret.id].deletes = 1

\* the callback handle of the delivery in progress belongs to no live session
NoLiveSessionFor(h) == \A i \in LiveSessions : sessions[i].callback # h

\* C5: a browse batch delivered when StopBrowse has already reclaimed the
\* session of its callback is handled like any other batch: a batch whose
\* names are within the length limit and whose type decodes is dispatched as
\* a success with all its names, in every interleaving with StopBrowse.
C5_LateBatchTolerated ==
    (/\ dlv.kind = "browse"
     /\ NoLiveSessionFor(dlv.in.callbackHandle)
     /\ \A i \in 1..Len(dlv.in.instanceName) :
           Len(dlv.in.instanceName[i]) <= kInstanceNameMaxLength
     /\ dlv.in.serviceType \in {TypeTcp, TypeUdp})
    => /\ dlv.out.invoke
       /\ dlv.out.error = CHIP_NO_ERROR
       /\ dlv.out.size = Len(dlv.in.instanceName)
       /\ (bpc = "done" => Len(dlv.invocations) = 1)

C5_Witness ==
    /\ HandlerReturned("browse")
    /\ dlv.in.callbackHandle \notin (bkStopped \cup bkBrowse)
    /\ NoLiveSessionFor(dlv.in.callbackHandle)
    /\ \E i \in 1..Len(sessions) : sessions[i].deletes = 1
    /\ Len(dlv.invocations) = 1
    /\ dlv.invocations[1].error = CHIP_NO_ERROR

\* C6: when HandleResolve has returned, every TXT buffer it allocated (entry
\* list, keys, data) has been released exactly once and nothing else has been
\* released, also when building the entries stopped at a failed allocation.
C6_TextBuffersReleasedOnce ==
    HandlerReturned("resolve") =>
        /\ \A b \in dlv.allocated : TimesReleased(dlv.freed, b) = 1
        /\ \A i \in 1..Len(dlv.freed) : dlv.freed[i] \in dlv.allocated

\* C7: a browse batch with an instance name over the length limit invokes the
\* browse callback exactly once, with InvalidArgument and no record list; the
\* valid entries before the bad one are not delivered.
C7_BadNameAbortsBatch ==
    (/\ HandlerReturned("browse")
     /\ \E i \in 1..Len(dlv.in.instanceName) :
           Len(dlv.in.instanceName[i]) > kInstanceNameMaxLength)
    => dlv.invocations = << [error |-> CHIP_ERROR_INVALID_ARGUMENT,
                             hasService |-> FALSE, services |-> <<>>, size |-> 0,
                             finalBrowse |-> TRUE] >>

C7_Witness ==
    /\ HandlerReturned("browse")
    /\ dlv.in.instanceName = <<NameA, NameLong>>
    /\ dlv.in.serviceType = TypeTcp
    /\ Len(dlv.invocations) = 1
    /\ dlv.invocations[1].error = CHIP_ERROR_INVALID_ARGUMENT

\* C8: when HandleBrowse has returned, the record array it allocated for the
\* batch has been released, whether it dispatched the list or an error.
C8_RecordArrayReleased ==
    HandlerReturned("browse") =>
        \A b \in dlv.allocated : TimesReleased(dlv.freed, b) = 1

\* C9: a resolve result with no address or with port 0 invokes the callback
\* exactly once with UnknownResourceId, no record and no address, and
\* allocates no TXT buffer.
C9_MissingAddressOrPort ==
    (/\ HandlerReturned("resolve")
     /\ (~dlv.in.addressPresent \/ dlv.in.port = 0))
    => /\ dlv.invocations = << [error |-> CHIP_ERROR_UNKNOWN_RESOURCE_ID,
                                service |-> NoService, addrCount |-> 0] >>
       /\ dlv.allocated = {}

C9_Witness ==
    /\ HandlerReturned("resolve")
    /\ dlv.in.addressPresent
    /\ dlv.in.port = 0
    /\ dlv.in.textPresent
    /\ Len(dlv.in.textData) > 0
    /\ Len(dlv.invocations) = 1
    /\ dlv.allocated = {}

\* C10: an operation that needs the backend and is called with valid
\* arguments while the backend object or its method is not bound returns
\* IncorrectState and does not call the backend.
C10_UnboundIsIncorrectState ==
    (/\ pc = "returned"
     /\ ret.op \in BackendOperations
     /\ ret.argsOk
     /\ ~ret.boundOk)
    => /\ ret.err = CHIP_ERROR_INCORRECT_STATE
       /\ ret.calls = 0

\* C11: when the backend method called by Browse, StopBrowse, Resolve,
\* PublishService or RemoveServices comes back with a fault, the operation
\* returns CHIP_JNI_ERROR_EXCEPTION_THROWN with no exception left pending, and
\* it has invoked the backend method once: the method is entered only from
\* the entry of an operation, never again behind a call that failed.  (The
\* step of StopBrowse that ends the process, for an identifier already
\* reclaimed, is no return.)
C11_FaultSurfacedOnce ==
    [][/\ (pc' = "inBackend" /\ pc # "inBackend") => pc = "idle"
       /\ (pc = "afterBackend" /\ pc' \notin {"afterBackend", "aborted"}) =>
              /\ pc' = "returned"
              /\ ret'.op = call.op
              /\ ret'.calls = 1
              /\ call' = NoCall
              /\ call.exception => ret'.err = CHIP_JNI_ERROR_EXCEPTION_THROWN]_vars

C11_Witness ==
    /\ OperationReturned("PublishService")
    /\ ret.err = CHIP_JNI_ERROR_EXCEPTION_THROWN
    /\ ret.calls = 1
    /\ call = NoCall

\* a step in which a backend operation is entered with arguments that fail
\* one of its argument checks
EntersWithBadArguments ==
    /\ pc = "idle"
    /\ \/ pc' = "returned" /\ ret'.op \in BackendOperations /\ ~ret'.argsOk
       \/ pc' = "inBackend" /\ ~call'.argsOk

\* C12 as claimed: a backend operation entered with arguments that fail its
\* validation returns InvalidArgument, does not invoke the backend and leaves
\* the browse sessions as they were.
C12_BadArgumentsAreInvalidArgument ==
    [][EntersWithBadArguments =>
          /\ pc' = "returned"
          /\ ret'.err = CHIP_ERROR_INVALID_ARGUMENT
          /\ ret'.calls = 0
          /\ UNCHANGED <<sessions, bkBrowse, bkStopped, bkResolve>>]_vars

\* C12 as amended: a backend operation entered with arguments that fail its
\* validation on entry (null type, service or callback, identifier 0, a
\* TXT-entry or subtype count that does not fit) does not invoke the backend
\* and leaves the browse sessions as they were; it returns InvalidArgument,
\* except PublishService with a non-null service while the resolver object or
\* the publish method is not bound, which returns IncorrectState before it
\* tests the counts.
C12_BadArgumentsFailFast ==
    [][EntersWithBadArguments =>
          /\ pc' = "returned"
          /\ ret'.err = (IF ret'.op = "PublishService" /\ ret'.ptrOk /\ ~ret'.boundOk
                         THEN CHIP_ERROR_INCORRECT_STATE
                         ELSE CHIP_ERROR_INVALID_ARGUMENT)
          /\ ret'.calls = 0
          /\ UNCHANGED <<sessions, bkBrowse, bkStopped, bkResolve>>]_vars

C12_Witness ==
    /\ OperationReturned("PublishService")
    /\ ~ret.argsOk
    /\ ret.ptrOk
    /\ ret.boundOk
    /\ ret.err = CHIP_ERROR_INVALID_ARGUMENT
    /\ ret.calls = 0

\* the step in which ChipDnssdBrowse returns
BrowseReturns == pc # "returned" /\ pc' = "returned" /\ ret'.op = "Browse"

\* the backend browse method was called and came back without a fault
BackendBrowseSucceeded == pc = "afterBackend" /\ ~call.exception

\* Browse returns success and the identifier (non-zero) of a session that did
\* not exist before and holds the callback supplied to the call
SessionCreated ==
    /\ ret'.err = CHIP_NO_ERROR
    /\ ret'.cb = call.cb
    /\ sessions' = Append(sessions, [callback |-> call.cb, deletes |-> 0])
    /\ ret'.id = Len(sessions')
    /\ ret'.id # 0

\* Browse returns an error, the sessions are as before, no identifier is written
NoSessionCreated ==
    /\ ret'.err # CHIP_NO_ERROR
    /\ sessions' = sessions
    /\ ret'.id = 0

\* C13 as claimed: Browse creates a session and returns its identifier
\* exactly when the backend browse call succeeded; otherwise it creates no
\* session and writes no identifier.
C13_SessionIffBackendSucceeded ==
    [][BrowseReturns =>
          IF BackendBrowseSucceeded THEN SessionCreated ELSE NoSessionCreated]_vars

\* C13 as amended: Browse creates a session and returns its identifier
\* exactly when the backend browse call succeeded and the session object
\* could be allocated.  When the backend reported a fault, or the backend was
\* not called, it creates no session and writes no identifier; when the
\* backend succeeded and the allocation failed it creates no session, writes
\* no identifier and returns CHIP_ERROR_NO_MEMORY.
C13_SessionIffBackendAndAllocation ==
    [][BrowseReturns =>
          IF BackendBrowseSucceeded
          THEN SessionCreated \/ (NoSessionCreated /\ ret'.err = CHIP_ERROR_NO_MEMORY)
          ELSE NoSessionCreated /\ ret'.err # CHIP_ERROR_NO_MEMORY]_vars

C13_Witness ==
    /\ OperationReturned("Browse")
    /\ ret.err = CHIP_NO_ERROR
    /\ ret.id = Len(sessions)
    /\ ret.id # 0
    /\ sessions[ret.id] = [callback |-> ret.cb, deletes |-> 0]
    /\ ret.cb \in bkBrowse

\* a (type, protocol) pair has gone through GetFullType and extractProtocol,
\* and the protocol is tcp or udp
RoundTripDone ==
    /\ codec.step = "roundTrip"
    /\ codec.protocol \in {kDnssdProtocolTcp, kDnssdProtocolUdp}

\* C14 as claimed: for every base type and either protocol, extractProtocol
\* applied to the result of GetFullType succeeds and returns the same base
\* type and the same protocol.
C14_RoundTripEveryType ==
    RoundTripDone =>
        codec.out = [err |-> CHIP_NO_ERROR, name |-> codec.type,
                     protocol |-> codec.protocol]

\* C14 as amended: the round trip returns the same base type and protocol
\* for every base type of at most kDnssdTypeMaxSize characters; for a longer
\* base type extractProtocol fails with CHIP_ERROR_INVALID_ARGUMENT.
C14_RoundTripTypeThatFits ==
    RoundTripDone =>
        IF Len(codec.type) <= kDnssdTypeMaxSize
        THEN codec.out = [err |-> CHIP_NO_ERROR, name |-> codec.type,
                          protocol |-> codec.protocol]
        ELSE codec.out.err = CHIP_ERROR_INVALID_ARGUMENT

C14_Witness ==
    /\ RoundTripDone
    /\ codec.type = <<"m", ".", "m">>
    /\ codec.protocol = kDnssdProtocolUdp
    /\ codec.wire = <<"m", ".", "m", ".", "_", "u", "d", "p">>
    /\ codec.out.err = CHIP_NO_ERROR
    /\ codec.out.name = codec.type
    /\ codec.out.protocol = kDnssdProtocolUdp

\* a (type, protocol) pair has gone through GetFullTypeWithSubTypes, and the
\* protocol is tcp or udp
BrowseTypeDone ==
    /\ codec.step = "browseType"
    /\ codec.protocol \in {kDnssdProtocolTcp, kDnssdProtocolUdp}

\* "._tcp" or "._udp" according to the protocol
SuffixOf(protocol) == IF protocol = kDnssdProtocolTcp THEN kProtocolTcp ELSE kProtocolUdp

\* C15: GetFullTypeWithSubTypes applied to <type>._sub.<subtype>
\* returns "<subtype>,<type>._tcp" or "<subtype>,<type>._udp" according to
\* the protocol; applied to a base type with no "._sub." marker it returns
\* what GetFullType returns.
C15_SubtypeCommaFullType ==
    BrowseTypeDone =>
        LET pos == Find(codec.type, SubMarker)
            before == SubSeq(codec.type, 1, pos - 1)
            behind == Tail_From(codec.type, pos + Len(SubMarker))
        IN  IF pos # 0
            THEN codec.wire = behind \o <<",">> \o before \o SuffixOf(codec.protocol)
            ELSE codec.wire = GetFullType(codec.type, codec.protocol)

\* the part of the wire type from its last '.' on is exactly "._tcp" or "._udp"
ExactProtocolSuffix(wire) ==
    /\ StrRChr(wire, ".") # 0
    /\ Tail_From(wire, StrRChr(wire, ".")) \in {kProtocolTcp, kProtocolUdp}

\* C16: extractProtocol succeeds only for a wire type whose part from the
\* last '.' on is exactly "._tcp" or "._udp"; for every other wire type (a
\* longer suffix that starts with "._tcp" or "._udp", another suffix, no '.'
\* at all) it fails with CHIP_ERROR_INVALID_ARGUMENT.
C16_ExactSuffixOnly ==
    codec.step \in {"decoded", "roundTrip"} =>
        /\ codec.out.err = CHIP_NO_ERROR => ExactProtocolSuffix(codec.wire)
        /\ ~ExactProtocolSuffix(codec.wire) => codec.out.err = CHIP_ERROR_INVALID_ARGUMENT

\* C17: a resolve result for which the TXT entry list or a TXT data buffer
\* could not be allocated is reported to the resolve callback as an error:
\* the callback is not invoked with CHIP_NO_ERROR for it.
C17_AllocationFailureIsAnError ==
    (/\ dlv.kind = "resolve"
     /\ dlv.out.allocFailed)
    => \A i \in 1..Len(dlv.invocations) : dlv.invocations[i].error # CHIP_NO_ERROR

\* the operations that are empty or return a constant
OperationsWithoutBackend ==
    {"Shutdown", "ResolveNoLongerNeeded", "FinalizeServiceUpdate", "ReconfirmRecord"}

\* C18: the browse sessions change only in the step in which Browse or
\* StopBrowse returns from its backend call; every other step, of Init,
\* Shutdown, Resolve, ResolveNoLongerNeeded, PublishService,
\* FinalizeServiceUpdate, RemoveServices, ReconfirmRecord and of both result
\* deliveries, leaves them as they are.  Shutdown, ResolveNoLongerNeeded,
\* FinalizeServiceUpdate and ReconfirmRecord return without a backend call,
\* and only the five backend operations ever enter a backend method.
C18_OnlyBrowseChangesSessions ==
    [][/\ sessions' # sessions =>
              /\ pc = "afterBackend"
              /\ call.op \in {"Browse", "StopBrowse"}
              /\ pc' = "returned"
              /\ ret'.op = call.op
              /\ UNCHANGED <<bpc, dlv>>
       /\ (pc # "returned" /\ pc' = "returned" /\ ret'.op \in OperationsWithoutBackend) =>
              /\ pc = "idle"
              /\ ret'.calls = 0
              /\ UNCHANGED <<bkBrowse, bkStopped, bkResolve>>
       /\ pc' = "inBackend" => call'.op \in BackendOperations]_vars

C18_Witness ==
    /\ OperationReturned("Shutdown")
    /\ HandlerReturned("resolve")
    /\ LiveSessions # {}
    /\ bkBrowse # {}

\* a browse batch whose wire type extractProtocol accepts and whose instance
\* names are all within kInstanceNameMaxLength
BatchIsValid(in) ==
    /\ extractProtocol(in.serviceType, kDnssdTypeMaxSize + 1).err = CHIP_NO_ERROR
    /\ \A i \in 1..Len(in.instanceName) : Len(in.instanceName[i]) <= kInstanceNameMaxLength

\* C19: a browse batch whose wire type decodes and whose names are all
\* within the length limit invokes the browse callback exactly once, with
\* CHIP_NO_ERROR and one record per name, in the order of the names, each
\* with the name, the decoded base type and the decoded protocol; every
\* invocation of the browse callback, an error included, passes
\* finalBrowse = true.
C19_ValidBatchDispatchedWhole ==
    /\ dlv.kind = "browse" =>
          /\ Len(dlv.invocations) <= 1
          /\ \A i \in 1..Len(dlv.invocations) : dlv.invocations[i].finalBrowse = TRUE
    /\ (HandlerReturned("browse") /\ BatchIsValid(dlv.in)) =>
          /\ Len(dlv.invocations) = 1
          /\ LET a == dlv.invocations[1]
                 names == dlv.in.instanceName
                 p == extractProtocol(dlv.in.serviceType, kDnssdTypeMaxSize + 1)
             IN  /\ a.error = CHIP_NO_ERROR
                 /\ a.hasService
                 /\ a.size = Len(names)
                 /\ Len(a.services) = Len(names)
                 /\ \A i \in 1..Len(names) :
                       a.services[i] = [mName |-> names[i], mType |-> p.name,
                                        mProtocol |-> p.protocol]

C19_Witness ==
    /\ HandlerReturned("browse")
    /\ dlv.in.instanceName = <<NameB, NameMax>>
    /\ dlv.in.serviceType = TypeMaxBase
    /\ Len(dlv.invocations) = 1
    /\ dlv.invocations[1].error = CHIP_NO_ERROR
    /\ dlv.invocations[1].services[1].mName = NameB
    /\ dlv.invocations[1].services[2].mName = NameMax
    /\ dlv.invocations[1].services[2].mProtocol = kDnssdProtocolUdp
    /\ dlv.invocations[1].finalBrowse

\* C20: when Browse returns an error, the backend browse that this call
\* started, if it started one, is no longer running: the caller is not left
\* with a running backend browse and no identifier to stop it with.
C20_FailedBrowseLeavesNoBackendBrowse ==
    [][(BrowseReturns /\ ret'.err # CHIP_NO_ERROR) =>
          ~(BackendBrowseSucceeded /\ call.cb \in bkBrowse')]_vars

\* C21: with a backend whose methods wait for a result delivery under way,
\* and fair scheduling, a delivery that is about to dispatch gets the stack
\* lock and invokes its callback, and an operation that has called the
\* backend returns (unless the process has been aborted meanwhile).
C21_DeliveryAndOperationComplete ==
    /\ (bpc = "dispatch") ~> (bpc = "callback" \/ ~Running)
    /\ (pc = "inBackend") ~> (pc = "returned" \/ ~Running)

\* the wire type cannot be decoded: the part from its last '.' on is not
\* exactly "._tcp" or "._udp" (there may be no '.'), or the base name before
\* it is longer than kDnssdTypeMaxSize
WireTypeUndecodable(wire) ==
    \/ ~ExactProtocolSuffix(wire)
    \/ StrRChr(wire, ".") - 1 > kDnssdTypeMaxSize

\* C22: a browse batch whose wire type cannot be decoded invokes the browse
\* callback exactly once, with CHIP_ERROR_INVALID_ARGUMENT, and never with
\* CHIP_NO_ERROR, whatever the number of instance names, zero included.
C22_UndecodableTypeIsOneError ==
    (/\ dlv.kind = "browse"
     /\ WireTypeUndecodable(dlv.in.serviceType))
    => /\ \A i \in 1..Len(dlv.invocations) :
             dlv.invocations[i].error = CHIP_ERROR_INVALID_ARGUMENT
       /\ bpc = "done" => Len(dlv.invocations) = 1

=============================================================================
